---- MODULE Spec2Model ----
(***************************************************************************)
(* simply-migrate: the migration job orchestrator.  A job record lives in  *)
(* a key-value store (Redis); StartJob creates it and dispatches one       *)
(* tenant task per tenant; every tenant task walks the scripts and then    *)
(* flushes its result with StateManager.update_tenant_result, which is a   *)
(* get followed by a setex.                                                *)
(***************************************************************************)
EXTENDS Integers, Sequences, FiniteSets, TLC

(***************************************************************************)
(* Bounds of the model.                                                    *)
(***************************************************************************)
MaxTenants == 2

\* The longest chain of handlers registered for one hook.
MaxCallbacks == 2

\* The most jobs in the store at once.
MaxJobs == 3

\* The greatest version number of a script file, and the most files in a
\* migrations directory.
MaxVersion == 2
MaxFiles == 3

\* The last instant of the clock, in half seconds.
MaxClock == 3

\* The script set of a request is a non-empty prefix of this list (the
\* loader returns the scripts sorted by filename).
Filenames == <<"V001__init.sql", "V002__addcol.sql">>

Tenants == 1..MaxTenants

(***************************************************************************)
(* MigrationStatus values (state_management.py).  A status held in memory  *)
(* is either a MigrationStatus member or the plain string json.loads       *)
(* returned; only a member has the attribute .value.                       *)
(***************************************************************************)
PENDING == "pending"
RUNNING == "running"
SUCCESS == "success"
FAILED == "failed"
ROLLED_BACK == "rolled_back"
PARTIAL == "partial"

MigrationStatus == {PENDING, RUNNING, SUCCESS, FAILED, ROLLED_BACK, PARTIAL}

Member(v) == [enum |-> TRUE, value |-> v]
PlainStr(v) == [enum |-> FALSE, value |-> v]

\* Python's None in a string-valued field, a missing key of the store, and
\* a local variable that holds no object.
None == "None"
NoJob == [missing |-> TRUE]
NoResult == [unset |-> TRUE]
UtcNow == "utcnow"

\* The messages the worker stores in error_message.
TimeLimitMessage == "Migration exceeded time limit"
BeforeTenantFailed == "Before tenant callback failed"
BeforeScriptFailed == "Before script callback failed"
AfterScriptFailed == "After script callback failed"
ExecutionFailed == "script execution raised"
ProgressFailed == "update_state raised"

VARIABLES
    store,      \* the value under migration:job:<job_id>, or NoJob
    req,        \* the accepted start request, or None before StartJob
    wpc,        \* wpc[i]: position of tenant i's task
    idx,        \* idx[i]: index of the script tenant i's task is at
    result,     \* result[i]: the TenantMigrationResult of tenant i's task
    wjob,       \* wjob[i]: the job update_tenant_result read for task i
    fin,        \* the finalizer task: position and return value
    view,       \* the last answer of get_job_status
    last,       \* the last direct call of the StateManager (StoreSpec)
    intr,       \* intr[i]: task i's result when the soft time limit hit it
    events,     \* events[i]: the hooks, executions and flushes of task i
    meta,       \* meta[i]: the metadata dicts of task i (context.metadata,
                \* script_context.metadata, result.callback_metadata)
    monitor,    \* the background task monitor_job_progress of the request
    call        \* a call of run_callbacks or get_all_jobs and its progress

vars == <<store, req, wpc, idx, result, wjob, fin, view, last, intr,
          events, meta, monitor, call>>

(***************************************************************************)
(* StateManager                                                            *)
(***************************************************************************)

\* dict assignment d[k] = v
DictSet(d, k, v) == [x \in (DOMAIN d) \cup {k} |-> IF x = k THEN v ELSE d[x]]

EmptyDict == [x \in {} |-> None]

\* serialize_for_celery on a tenant result: the status becomes its string.
serialize_for_celery(tr) == [tr EXCEPT !.status = tr.status.value]

\* Variant of get_job_dict that rebuilds the job status as a MigrationStatus
\* member (MigrationStatus(job_dict['status'])).
get_job_dict_member(data) ==
    [data EXCEPT !.status = Member(data.status),
                 !.tenant_results =
                     [k \in DOMAIN data.tenant_results |->
                         [data.tenant_results[k] EXCEPT
                             !.status = PlainStr(data.tenant_results[k].status)]]]

\* get_job_dict: json.loads; the job status stays the string, a tenant
\* result is rebuilt as a TenantMigrationResult whose status is the string.
get_job_dict(data) ==
    [data EXCEPT !.status = PlainStr(data.status),
                 !.tenant_results =
                     [k \in DOMAIN data.tenant_results |->
                         [data.tenant_results[k] EXCEPT
                             !.status = PlainStr(data.tenant_results[k].status)]]]

\* get_job: None when the key is missing.
get_job(data) == IF data = NoJob THEN NoJob ELSE get_job_dict(data)

\* _save_job: job.status.value exists only for a MigrationStatus member.
SaveRaises(job) == ~job.status.enum

save_job(job) ==
    [job EXCEPT !.status = job.status.value,
                !.tenant_results =
                    [k \in DOMAIN job.tenant_results |->
                        serialize_for_celery(job.tenant_results[k])]]

\* create_job: the state create_job builds and saves.
create_job(n) ==
    save_job([status |-> Member(PENDING),
              total_tenants |-> n,
              completed_tenants |-> 0,
              successful_tenants |-> 0,
              failed_tenants |-> 0,
              tenant_results |-> EmptyDict,
              completed_at |-> None])

\* The terminal status update_tenant_result picks once all have reported.
TerminalStatus(job) ==
    IF job.failed_tenants = 0 THEN SUCCESS
    ELSE IF job.successful_tenants = 0 THEN FAILED
    ELSE PARTIAL

\* Variant of update_tenant_result that counts every report as successful
\* and a FAILED one as failed too (if / if in place of if / elif).
update_tenant_result_both(job, tr) ==
    LET counted ==
            [job EXCEPT
                !.tenant_results = DictSet(job.tenant_results, tr.tenant_id, tr),
                !.completed_tenants = @ + 1,
                !.successful_tenants = @ + 1,
                !.failed_tenants =
                    IF tr.status.value = FAILED THEN @ + 1 ELSE @]
    IN  IF counted.completed_tenants = counted.total_tenants
        THEN [counted EXCEPT !.status = Member(TerminalStatus(counted)),
                             !.completed_at = UtcNow]
        ELSE counted

\* update_tenant_result between its get_job and its _save_job.
update_tenant_result(job, tr) ==
    LET counted ==
            [job EXCEPT
                !.tenant_results = DictSet(job.tenant_results, tr.tenant_id, tr),
                !.completed_tenants = @ + 1,
                !.successful_tenants =
                    IF tr.status.value = SUCCESS THEN @ + 1 ELSE @,
                !.failed_tenants =
                    IF tr.status.value # SUCCESS /\ tr.status.value = FAILED
                    THEN @ + 1 ELSE @]
    IN  IF counted.completed_tenants = counted.total_tenants
        THEN [counted EXCEPT !.status = Member(TerminalStatus(counted)),
                             !.completed_at = UtcNow]
        ELSE counted

(***************************************************************************)
(* Initial state: nothing stored, no request accepted, no task running.    *)
(***************************************************************************)
\* Nothing has been requested and no task exists.
\* The three metadata dicts of a task, each as the set of its keys.
NoMetadata == [context |-> {}, script_context |-> {}, callback_metadata |-> {}]

Idle ==
    /\ store = NoJob
    /\ req = [started |-> FALSE]
    /\ wpc = [i \in Tenants |-> "idle"]
    /\ idx = [i \in Tenants |-> 0]
    /\ result = [i \in Tenants |-> NoResult]
    /\ wjob = [i \in Tenants |-> NoJob]
    /\ fin = [pc |-> "idle", ret |-> NoJob, after_job |-> FALSE]
    /\ view = NoJob
    /\ last = [op |-> "none"]
    /\ intr = [i \in Tenants |-> NoResult]
    /\ events = [i \in Tenants |-> <<>>]
    /\ meta = [i \in Tenants |-> NoMetadata]
    /\ monitor = [pc |-> "idle", job_status |-> NoJob]

Init ==
    /\ Idle
    /\ call = [op |-> "none"]

(***************************************************************************)
(* POST /api/migrations/start: start_migration (migrations.py 89-174)      *)
(* validates the directory, then start_migration_job (job_runner.py        *)
(* 26-167) loads the callback file, runs the before_job hooks, creates the *)
(* job and queues one task per tenant (both modes queue every task at      *)
(* once) with the finalizer attached.                                      *)
(***************************************************************************)

\* MigrationMode (models.py 7-11)
DRY_RUN == "dry_run"
APPLY == "apply"
VALIDATE_ONLY == "validate_only"
MigrationMode == {DRY_RUN, APPLY, VALIDATE_ONLY}

\* SIMPLY_MIGRATE_CALLBACK_FILE: not in the environment, the empty string,
\* the path of no file, the path of a callback file.
CallbackFiles == {"unset", "empty", "missing", "file"}

\* What run_callbacks can return: CallbackResult(success, skip_script).
HookResults == [success : BOOLEAN, skip_script : BOOLEAN]

\* CallbackResult.ok(), what run_callbacks returns for an empty hook list.
OkResult == [success |-> TRUE, skip_script |-> FALSE]

\* No hook chain was run.
NoHook == [notrun |-> TRUE]

\* The results a hook chain can have in a process whose registry was
\* loaded with the given SIMPLY_MIGRATE_CALLBACK_FILE.
RegistryResults(callback_file) ==
    IF callback_file = "file" THEN HookResults ELSE {OkResult}

\* What MigrationValidator reports: validate_directory_structure's answer,
\* whether errors / warnings are non-empty, and the number of scripts
\* load_scripts returned (a directory that fails the structure check has an
\* error and is never loaded).
LoaderResults(ScriptCounts) ==
    {ld \in [dir_ok : BOOLEAN, errors : BOOLEAN, warnings : BOOLEAN,
             ns : ScriptCounts \cup {0}] :
        ~ld.dir_ok => (ld.errors /\ ld.ns = 0)}

LoadedClean(ScriptCounts) ==
    {ld \in LoaderResults(ScriptCounts) :
        ld.dir_ok /\ ~ld.errors /\ ~ld.warnings /\ ld.ns > 0}

\* Variant of the refusal that does not look at the validator's errors.
Rejects_unless_errors(ld) == ~ld.dir_ok \/ ld.ns = 0

\* migrations.py 104-129: the request is refused with 400.
Rejects(ld) == ~ld.dir_ok \/ ld.errors \/ ld.ns = 0

\* job_runner.py 35-44: load_from_file raises for a missing file; with the
\* variable not in the environment the KeyError is caught and the log line
\* that follows reads the unassigned local callback_file.
LoadCallbacksRaises(callback_file) == callback_file \in {"unset", "missing"}

\* job_runner.py 62: "if not callback_result" on a CallbackResult object,
\* which defines neither __bool__ nor __len__.
Falsy(r) == FALSE

\* The HTTP status of the answer.
StartOutcome(ld, callback_file, r) ==
    IF Rejects(ld) THEN "400"
    ELSE IF LoadCallbacksRaises(callback_file) THEN "500"
    ELSE IF Falsy(r) THEN "500"
    ELSE "202"

StartMigration(TenantCounts, Modes, Files, Loaded, BeforeJobResults) ==
    /\ ~req.started
    /\ \E n \in TenantCounts, mode \in Modes, parallel \in BOOLEAN,
          callback_file \in Files, ld \in Loaded,
          r \in BeforeJobResults :
        LET hooked == ~Rejects(ld) /\ ~LoadCallbacksRaises(callback_file)
            bj == IF hooked /\ callback_file # "file" THEN OkResult ELSE r
            accepted == StartOutcome(ld, callback_file, bj) = "202"
        IN  /\ req' = [started |-> TRUE,
                       outcome |-> StartOutcome(ld, callback_file, bj),
                       n |-> n,
                       scripts |-> SubSeq(Filenames, 1, ld.ns),
                       mode |-> mode,
                       dry_run |-> (mode = DRY_RUN),
                       parallel |-> parallel,
                       callback_file |-> callback_file,
                       loader |-> ld,
                       before_job |-> IF hooked THEN bj ELSE NoHook,
                       created |-> accepted]
            /\ store' = IF accepted THEN create_job(n) ELSE store
            /\ wpc' = [i \in Tenants |->
                          IF accepted /\ i <= n THEN "queued" ELSE "idle"]
            /\ fin' = [fin EXCEPT !.pc = IF accepted THEN "waiting" ELSE @]
            /\ monitor' = [monitor EXCEPT
                               !.pc = IF accepted THEN "poll" ELSE @]
    /\ UNCHANGED <<idx, result, wjob, view, last, intr, events, meta, call>>

\* A request that passes validation in a process with a callback file whose
\* before_job hooks succeed.
StartJobWith(TenantCounts, ScriptCounts) ==
    StartMigration(TenantCounts, {DRY_RUN, APPLY}, {"file"},
                   LoadedClean(ScriptCounts), {OkResult})

\* Spec: a request of any number of tenants over the one-script set, in a
\* deployment whose SIMPLY_MIGRATE_CALLBACK_FILE is empty (no hooks).
StartJob ==
    StartMigration(0..MaxTenants, {DRY_RUN, APPLY}, {"empty"},
                   LoadedClean({1}), {OkResult})

\* StartSpec: any request of at most one tenant, in any deployment, over a
\* directory in any condition.
StartAnyJob ==
    StartMigration({0, 1}, MigrationMode, CallbackFiles,
                   LoaderResults({1}), HookResults)

\* TenantSpec: a request of one tenant over every script set.
StartTenantJob == StartJobWith({1}, 1..Len(Filenames))

(***************************************************************************)
(* apply_migration_to_tenant (worker.py), one action per step of the task. *)
(* The outcome of a hook chain, of a script execution and of the progress  *)
(* emit are inputs of the step that awaits them.                           *)
(***************************************************************************)

\* The results of a hook chain in the worker process (worker.py 51-60).
RunCallbacks == RegistryResults(req.callback_file)

\* The positions covered by the try block (worker.py 103-192).
TryPcs == {"before_tenant", "dry_fill", "dry_success", "before_script",
           "execute", "append", "after_script", "progress", "after_tenant",
           "set_success"}

Script(i) == req.scripts[idx[i]]

\* except Exception: status FAILED, error_message = str(e); then finally.
Raise(i, msg) ==
    /\ result' = [result EXCEPT ![i].status = Member(FAILED),
                                ![i].error_message = msg]
    /\ wpc' = [wpc EXCEPT ![i] = "finally"]
    /\ UNCHANGED idx

\* The keys a hook chain merges into the metadata of its context
\* (callback_registry.py 113-114): with a callback file, a chain that ends
\* well had a handler that returned the mapping {<<what, k>>: ...}.
Returned_metadata(what, k, how) ==
    IF req.callback_file = "file" /\ how = "ok" THEN {<<what, k>>} ELSE {}

\* The metadata dicts of a task after the step `what` for script k:
\*   before_tenant  context = {} (line 111), merged into by the hooks; on
\*                  success result.callback_metadata.update(context.metadata)
\*   before_script  script_context.metadata = context.metadata.copy() (line
\*                  141), merged into by the hooks
\*   after_script   the hooks merge into script_context.metadata; on success
\*                  result.callback_metadata.update(script_context.metadata)
\*   after_tenant   the hooks merge into context.metadata
Metadata(m, what, k, how) ==
    LET keys == Returned_metadata(what, k, how)
    IN  CASE what = "before_tenant" ->
                [m EXCEPT !.context = keys,
                          !.callback_metadata =
                              IF how = "fail" THEN @ ELSE @ \cup keys]
          [] what = "before_script" ->
                [m EXCEPT !.script_context = m.context \cup keys]
          [] what = "after_script" ->
                [m EXCEPT !.script_context = @ \cup keys,
                          !.callback_metadata =
                              IF how = "fail" THEN @
                              ELSE @ \cup m.script_context \cup keys]
          [] what = "after_tenant" ->
                [m EXCEPT !.context = @ \cup keys]
          [] OTHER -> m

\* The task's log of hook chains run and scripts executed: what ran, for
\* which script index (0 for the tenant hooks), and how it ended.
Log(i, what, k, how) ==
    /\ events' = [events EXCEPT ![i] = Append(@, <<what, k, how>>)]
    /\ meta' = [meta EXCEPT ![i] = Metadata(meta[i], what, k, how)]

HowEnded(r) ==
    IF ~r.success THEN "fail" ELSE IF r.skip_script THEN "skip" ELSE "ok"

\* Variant of the loop that takes the same script again.
NextScript_repeat(i) ==
    /\ idx' = idx
    /\ wpc' = [wpc EXCEPT ![i] = "before_script"]

\* The for loop moves to the next script, or leaves the loop.
NextScript(i) ==
    IF idx[i] < Len(req.scripts)
    THEN /\ idx' = [idx EXCEPT ![i] = @ + 1]
         /\ wpc' = [wpc EXCEPT ![i] = "before_script"]
    ELSE /\ idx' = idx
         /\ wpc' = [wpc EXCEPT ![i] = "after_tenant"]

\* Variant of the task start that waits for the tasks queued before it to
\* have ended without a FAILED result.
TaskStart_after_success(i) ==
    /\ wpc[i] = "queued"
    /\ \A k \in 1..(i - 1) :
          /\ wpc[k] \in {"returned", "raised"}
          /\ result[k].status # Member(FAILED)
    /\ result' = [result EXCEPT ![i] =
                     [tenant_id |-> i,
                      status |-> Member(RUNNING),
                      scripts_applied |-> <<>>,
                      scripts_skipped |-> <<>>,
                      error_message |-> None,
                      completed_at |-> None]]
    /\ wpc' = [wpc EXCEPT ![i] = "before_tenant"]
    /\ UNCHANGED <<store, req, idx, wjob, fin, view, last, intr, events,
                   meta, monitor, call>>

\* lines 90-101: the task starts and builds its result in RUNNING.
TaskStart(i) ==
    /\ wpc[i] = "queued"
    /\ result' = [result EXCEPT ![i] =
                     [tenant_id |-> i,
                      status |-> Member(RUNNING),
                      scripts_applied |-> <<>>,
                      scripts_skipped |-> <<>>,
                      error_message |-> None,
                      completed_at |-> None]]
    /\ wpc' = [wpc EXCEPT ![i] = "before_tenant"]
    /\ UNCHANGED <<store, req, idx, wjob, fin, view, last, intr, events,
                   meta, monitor, call>>

\* lines 105-131: before_tenant hooks, then dry run or the first script.
BeforeTenant(i) ==
    /\ wpc[i] = "before_tenant"
    /\ \E r \in RunCallbacks :
        /\ Log(i, "before_tenant", 0, HowEnded(r))
        /\ IF ~r.success
           THEN Raise(i, BeforeTenantFailed)
           ELSE /\ result' = result
                /\ IF req.dry_run
                   THEN /\ wpc' = [wpc EXCEPT ![i] = "dry_fill"]
                        /\ idx' = idx
                   ELSE /\ wpc' = [wpc EXCEPT ![i] = "before_script"]
                        /\ idx' = [idx EXCEPT ![i] = 1]
    /\ UNCHANGED <<store, req, wjob, fin, view, last, intr, monitor, call>>

\* line 126: a dry run lists every script as applied.
DryFill(i) ==
    /\ wpc[i] = "dry_fill"
    /\ result' = [result EXCEPT ![i].scripts_applied = req.scripts]
    /\ wpc' = [wpc EXCEPT ![i] = "dry_success"]
    /\ UNCHANGED <<store, req, idx, wjob, fin, view, last, intr, events,
                   meta, monitor, call>>

\* line 127
DrySuccess(i) ==
    /\ wpc[i] = "dry_success"
    /\ result' = [result EXCEPT ![i].status = Member(SUCCESS)]
    /\ wpc' = [wpc EXCEPT ![i] = "finally"]
    /\ UNCHANGED <<store, req, idx, wjob, fin, view, last, intr, events,
                   meta, monitor, call>>

\* Variant of the before_script step that executes a script it recorded as
\* skipped.
BeforeScript_skip_executes(i) ==
    /\ wpc[i] = "before_script"
    /\ \E r \in RunCallbacks :
        /\ Log(i, "before_script", idx[i], HowEnded(r))
        /\ IF ~r.success
           THEN Raise(i, BeforeScriptFailed)
           ELSE /\ result' = IF r.skip_script
                             THEN [result EXCEPT ![i].scripts_skipped =
                                      Append(@, Script(i))]
                             ELSE result
                /\ wpc' = [wpc EXCEPT ![i] = "execute"]
                /\ idx' = idx
    /\ UNCHANGED <<store, req, wjob, fin, view, last, intr, monitor, call>>

\* lines 135-155: before_script hooks; failure raises, a skip records the
\* filename and continues with the next script.
BeforeScript(i) ==
    /\ wpc[i] = "before_script"
    /\ \E r \in RunCallbacks :
        /\ Log(i, "before_script", idx[i], HowEnded(r))
        /\ IF ~r.success
           THEN Raise(i, BeforeScriptFailed)
           ELSE IF r.skip_script
           THEN /\ result' = [result EXCEPT ![i].scripts_skipped =
                                 Append(@, Script(i))]
                /\ NextScript(i)
           ELSE /\ result' = result
                /\ wpc' = [wpc EXCEPT ![i] = "execute"]
                /\ idx' = idx
    /\ UNCHANGED <<store, req, wjob, fin, view, last, intr, monitor, call>>

\* Variant of the execution that lists the script as applied before it
\* learns whether the execution raised.
Execute_appends_first(i) ==
    /\ wpc[i] = "execute"
    /\ \E ok \in BOOLEAN :
        /\ Log(i, "execute", idx[i], IF ok THEN "ok" ELSE "fail")
        /\ IF ok
           THEN /\ wpc' = [wpc EXCEPT ![i] = "append"]
                /\ UNCHANGED <<result, idx>>
           ELSE /\ result' = [result EXCEPT
                                 ![i].scripts_applied = Append(@, Script(i)),
                                 ![i].status = Member(FAILED),
                                 ![i].error_message = ExecutionFailed]
                /\ wpc' = [wpc EXCEPT ![i] = "finally"]
                /\ idx' = idx
    /\ UNCHANGED <<store, req, wjob, fin, view, last, intr, monitor, call>>

\* line 158: execute_script commits, or rolls back and raises.
Execute(i) ==
    /\ wpc[i] = "execute"
    /\ \E ok \in BOOLEAN :
        /\ Log(i, "execute", idx[i], IF ok THEN "ok" ELSE "fail")
        /\ IF ok
           THEN /\ wpc' = [wpc EXCEPT ![i] = "append"]
                /\ UNCHANGED <<result, idx>>
           ELSE Raise(i, ExecutionFailed)
    /\ UNCHANGED <<store, req, wjob, fin, view, last, intr, monitor, call>>

\* Variant of the append that lists the script as skipped as well.
AppendApplied_both(i) ==
    /\ wpc[i] = "append"
    /\ result' = [result EXCEPT ![i].scripts_applied = Append(@, Script(i)),
                                ![i].scripts_skipped = Append(@, Script(i))]
    /\ wpc' = [wpc EXCEPT ![i] = "after_script"]
    /\ UNCHANGED <<store, req, idx, wjob, fin, view, last, intr, events,
                   meta, monitor, call>>

\* line 159
AppendApplied(i) ==
    /\ wpc[i] = "append"
    /\ result' = [result EXCEPT ![i].scripts_applied = Append(@, Script(i))]
    /\ wpc' = [wpc EXCEPT ![i] = "after_script"]
    /\ UNCHANGED <<store, req, idx, wjob, fin, view, last, intr, events,
                   meta, monitor, call>>

\* lines 162-170: after_script hooks; only success is looked at.
AfterScript(i) ==
    /\ wpc[i] = "after_script"
    /\ \E r \in RunCallbacks :
        /\ Log(i, "after_script", idx[i], IF r.success THEN "ok" ELSE "fail")
        /\ IF ~r.success
           THEN Raise(i, AfterScriptFailed)
           ELSE /\ wpc' = [wpc EXCEPT ![i] = "progress"]
                /\ UNCHANGED <<result, idx>>
    /\ UNCHANGED <<store, req, wjob, fin, view, last, intr, monitor, call>>

\* lines 173-180: self.update_state inside the try block.
Progress(i) ==
    /\ wpc[i] = "progress"
    /\ \E ok \in BOOLEAN :
        /\ Log(i, "progress", idx[i], IF ok THEN "ok" ELSE "fail")
        /\ IF ok
           THEN /\ NextScript(i)
                /\ result' = result
           ELSE Raise(i, ProgressFailed)
    /\ UNCHANGED <<store, req, wjob, fin, view, last, intr, monitor, call>>

\* Variant of the after_tenant step that raises on a failed hook chain.
AfterTenant_raises(i) ==
    /\ wpc[i] = "after_tenant"
    /\ \E r \in RunCallbacks :
        /\ Log(i, "after_tenant", 0, IF r.success THEN "ok" ELSE "fail")
        /\ IF r.success
           THEN /\ wpc' = [wpc EXCEPT ![i] = "set_success"]
                /\ UNCHANGED <<result, idx>>
           ELSE Raise(i, "After tenant callback failed")
    /\ UNCHANGED <<store, req, wjob, fin, view, last, intr, monitor, call>>

\* lines 183-189: after_tenant hooks; a failure is logged only.
AfterTenant(i) ==
    /\ wpc[i] = "after_tenant"
    /\ \E r \in RunCallbacks :
        /\ Log(i, "after_tenant", 0, IF r.success THEN "ok" ELSE "fail")
        /\ wpc' = [wpc EXCEPT ![i] = "set_success"]
    /\ UNCHANGED <<store, req, idx, result, wjob, fin, view, last, intr, monitor, call>>

\* line 191
SetSuccess(i) ==
    /\ wpc[i] = "set_success"
    /\ result' = [result EXCEPT ![i].status = Member(SUCCESS)]
    /\ wpc' = [wpc EXCEPT ![i] = "finally"]
    /\ UNCHANGED <<store, req, idx, wjob, fin, view, last, intr, events,
                   meta, monitor, call>>

\* Variant of the time limit handler that starts the result over.
SoftTimeLimit_reset(i) ==
    /\ wpc[i] \in TryPcs
    /\ result' = [result EXCEPT ![i].error_message = TimeLimitMessage,
                                ![i].scripts_applied = <<>>]
    /\ wpc' = [wpc EXCEPT ![i] = "finally"]
    /\ intr' = [intr EXCEPT ![i] = result[i]]
    /\ UNCHANGED <<store, req, idx, wjob, fin, view, last, events, meta,
                   monitor, call>>

\* lines 194-197: SoftTimeLimitExceeded raised anywhere in the try block;
\* the handler sets the message and leaves the status as it is.
SoftTimeLimit(i) ==
    /\ wpc[i] \in TryPcs
    /\ result' = [result EXCEPT ![i].error_message = TimeLimitMessage]
    /\ wpc' = [wpc EXCEPT ![i] = "finally"]
    /\ intr' = [intr EXCEPT ![i] = result[i]]
    /\ UNCHANGED <<store, req, idx, wjob, fin, view, last, events, meta,
                   monitor, call>>

\* Variant of the finally block that does not stamp completed_at.
Finally_unstamped(i) ==
    /\ wpc[i] = "finally"
    /\ wpc' = [wpc EXCEPT ![i] = "flush_read"]
    /\ UNCHANGED <<store, req, idx, result, wjob, fin, view, last, intr,
                   events, meta, monitor, call>>

\* lines 211-213: finally stamps completed_at.
Finally(i) ==
    /\ wpc[i] = "finally"
    /\ result' = [result EXCEPT ![i].completed_at = UtcNow]
    /\ wpc' = [wpc EXCEPT ![i] = "flush_read"]
    /\ UNCHANGED <<store, req, idx, wjob, fin, view, last, intr, events,
                   meta, monitor, call>>

\* line 215, first half: update_tenant_result reads the job (redis GET);
\* a missing job ends the call and the task returns.
FlushRead(i) ==
    /\ wpc[i] = "flush_read"
    /\ wjob' = [wjob EXCEPT ![i] = get_job(store)]
    /\ wpc' = [wpc EXCEPT ![i] =
                  IF store = NoJob THEN "returned" ELSE "flush_write"]
    /\ UNCHANGED <<store, req, idx, result, fin, view, last, intr, events,
                   meta, monitor, call>>

\* line 215, second half: mutate the job read and save it (redis SETEX);
\* when _save_job raises, nothing is written and the task fails.
FlushWrite(i) ==
    /\ wpc[i] = "flush_write"
    /\ LET job == update_tenant_result(wjob[i], result[i])
       IN  IF SaveRaises(job)
           THEN /\ store' = store
                /\ wpc' = [wpc EXCEPT ![i] = "raised"]
           ELSE /\ store' = save_job(job)
                /\ wpc' = [wpc EXCEPT ![i] = "returned"]
    /\ wjob' = [wjob EXCEPT ![i] = NoJob]
    /\ UNCHANGED <<req, idx, result, fin, view, last, intr, events, meta,
                   monitor, call>>

Worker(i) ==
    \/ TaskStart(i) \/ BeforeTenant(i) \/ DryFill(i) \/ DrySuccess(i)
    \/ BeforeScript(i) \/ Execute(i) \/ AppendApplied(i) \/ AfterScript(i)
    \/ Progress(i) \/ AfterTenant(i) \/ SetSuccess(i) \/ SoftTimeLimit(i)
    \/ Finally(i) \/ FlushRead(i) \/ FlushWrite(i)

(***************************************************************************)
(* finalize_migration_job (worker.py 224-264): the chord body in parallel  *)
(* mode, the link of the last task in sequential mode.  Either runs only   *)
(* after the tasks it waits for have returned without raising.             *)
(***************************************************************************)
FinalizeReady ==
    IF req.parallel
    THEN \A i \in 1..req.n : wpc[i] = "returned"
    ELSE req.n >= 1 /\ wpc[req.n] = "returned"

Finalize ==
    /\ req.started
    /\ fin.pc = "waiting"
    /\ FinalizeReady
    /\ LET job == get_job(store)
       IN  fin' = [pc |-> "done",
                   ret |-> IF job = NoJob THEN NoJob
                           ELSE [status |-> job.status.value,
                                 total |-> job.total_tenants,
                                 successful |-> job.successful_tenants,
                                 failed |-> job.failed_tenants],
                   \* line 247: the call of the after_job hooks is
                   \* commented out
                   after_job |-> fin.after_job]
    /\ UNCHANGED <<store, req, wpc, idx, result, wjob, view, last, intr,
                   events, meta, monitor, call>>

(***************************************************************************)
(* get_job_status (job_runner.py 170-199): what GET /jobs/{id} answers.    *)
(***************************************************************************)
get_job_status(data) ==
    LET job == get_job(data)
    IN  IF job = NoJob THEN NoJob
        ELSE [status |-> job.status.value,
              total |-> job.total_tenants,
              completed |-> job.completed_tenants,
              successful |-> job.successful_tenants,
              failed |-> job.failed_tenants]

GetJob ==
    /\ view' = get_job_status(store)
    /\ view' # view
    /\ UNCHANGED <<store, req, wpc, idx, result, wjob, fin, last, intr,
                   events, meta, monitor, call>>

(***************************************************************************)
(* CallbackRegistry.run_callbacks (callback_registry.py 88-118) on a chain *)
(* of handlers, each described by what it returns or does.                 *)
(***************************************************************************)
HandlerReturns == {"None", "ok", "skip", "fail", "fail_skip", "True",
                   "False", "dict", "raises"}

Chains == UNION {[1..n -> HandlerReturns] : n \in 0..MaxCallbacks}

\* Variant of the loop body that goes on to the next handler after a skip.
Returned_unless_skip(h) ==
    CASE h = "fail" -> [success |-> FALSE, skip_script |-> FALSE]
      [] h = "fail_skip" -> [success |-> FALSE, skip_script |-> TRUE]
      [] h \in {"False", "raises"} -> [success |-> FALSE, skip_script |-> FALSE]
      [] OTHER -> NoHook

\* lines 103-116: what run_callbacks returns on a handler's answer, NoHook
\* when the loop goes on to the next handler.  A CallbackResult that failed
\* or asks for a skip is returned as it is; False and an exception become
\* CallbackResult.fail.
Returned(h) ==
    CASE h = "skip" -> [success |-> TRUE, skip_script |-> TRUE]
      [] h = "fail" -> [success |-> FALSE, skip_script |-> FALSE]
      [] h = "fail_skip" -> [success |-> FALSE, skip_script |-> TRUE]
      [] h \in {"False", "raises"} -> [success |-> FALSE, skip_script |-> FALSE]
      [] OTHER -> NoHook

HookInit ==
    /\ Idle
    /\ call \in {[op |-> "run_callbacks", callbacks |-> c, invoked |-> <<>>,
                  metadata |-> {}, ret |-> NoHook] : c \in Chains}

\* One turn of the for loop: the next handler is called; a dict it returns
\* is merged into context.metadata.
InvokeCallback ==
    /\ call.op = "run_callbacks"
    /\ call.ret = NoHook
    /\ Len(call.invoked) < Len(call.callbacks)
    /\ LET k == Len(call.invoked) + 1
           h == call.callbacks[k]
       IN  call' = [call EXCEPT
                       !.invoked = Append(@, k),
                       !.metadata = IF h = "dict" THEN @ \cup {k} ELSE @,
                       !.ret = Returned(h)]
    /\ UNCHANGED <<store, req, wpc, idx, result, wjob, fin, view, last, intr,
                   events, meta, monitor>>

\* line 118: the loop ended, CallbackResult.ok().
ReturnOk ==
    /\ call.op = "run_callbacks"
    /\ call.ret = NoHook
    /\ Len(call.invoked) = Len(call.callbacks)
    /\ call' = [call EXCEPT !.ret = OkResult]
    /\ UNCHANGED <<store, req, wpc, idx, result, wjob, fin, view, last, intr,
                   events, meta, monitor>>

HookNext ==
    \/ InvokeCallback
    \/ ReturnOk

HookSpec == HookInit /\ [][HookNext]_vars

(***************************************************************************)
(* StateManager.get_all_jobs (state_management.py 160-169): the keys as    *)
(* redis KEYS lists them, cut to limit, read, sorted by started_at.        *)
(***************************************************************************)
Min(a, b) == IF a <= b THEN a ELSE b

\* The orders in which KEYS can list n keys.
KeyOrders(n) ==
    {k \in [1..n -> 1..n] : \A a, b \in 1..n : a # b => k[a] # k[b]}

\* Put job x behind the jobs of seq that started at or after it.
RECURSIVE InsertDescending(_, _, _)
InsertDescending(x, seq, started_at) ==
    IF seq = <<>> THEN <<x>>
    ELSE IF started_at[Head(seq)] >= started_at[x]
    THEN <<Head(seq)>> \o InsertDescending(x, Tail(seq), started_at)
    ELSE <<x>> \o seq

\* sorted(jobs, key=started_at, reverse=True): jobs that started together
\* keep their order.
RECURSIVE SortedDescending(_, _)
SortedDescending(seq, started_at) ==
    IF seq = <<>> THEN <<>>
    ELSE InsertDescending(seq[Len(seq)],
                          SortedDescending(SubSeq(seq, 1, Len(seq) - 1),
                                           started_at),
                          started_at)

get_all_jobs(keys, started_at, limit) ==
    SortedDescending(SubSeq(keys, 1, Min(limit, Len(keys))), started_at)

\* Jobs 1..n with the instants they started at (their isoformat strings
\* compare as the instants do), listed by KEYS in any order.
ListInit ==
    /\ Idle
    /\ \E n \in 0..MaxJobs :
        call \in [op : {"get_all_jobs"},
                  started_at : [1..n -> 1..MaxJobs],
                  keys : KeyOrders(n),
                  limit : 0..MaxJobs,
                  done : {FALSE},
                  ret : {<<>>}]

ListJobsCall ==
    /\ call.op = "get_all_jobs"
    /\ ~call.done
    /\ call' = [call EXCEPT
                   !.done = TRUE,
                   !.ret = get_all_jobs(call.keys, call.started_at,
                                        call.limit)]
    /\ UNCHANGED <<store, req, wpc, idx, result, wjob, fin, view, last, intr,
                   events, meta, monitor>>

ListNext == ListJobsCall

ListSpec == ListInit /\ [][ListNext]_vars

(***************************************************************************)
(* MigrationValidator.load_scripts (validator.py 87-146) on a directory of *)
(* .sql files.  A file name <kind><version>__<description>.sql is the      *)
(* record of its three parts; versions stand for numerals of one width and *)
(* descriptions for words, so that names compare part by part.             *)
(***************************************************************************)
ScriptKinds == {"R", "S", "V"}

\* The place of the kind's letter in the alphabet.
KindRank(kind) ==
    CASE kind = "R" -> 1
      [] kind = "S" -> 2
      [] kind = "V" -> 3

Descriptions == {1, 2}

\* A file whose name matches none of the three patterns.
OtherFile == [kind |-> "other", version |-> 0, description |-> 0]

SqlFiles ==
    [kind : ScriptKinds, version : 1..MaxVersion, description : Descriptions]
        \cup {OtherFile}

Directories == {d \in SUBSET SqlFiles : Cardinality(d) <= MaxFiles}

\* parse_script_filename: None for a name that matches no pattern.
Parses(f) == f.kind \in ScriptKinds

\* The order of file names (sorted(glob("*.sql"))).
NameBefore(f, g) ==
    \/ KindRank(f.kind) < KindRank(g.kind)
    \/ /\ f.kind = g.kind
       /\ \/ f.version < g.version
          \/ f.version = g.version /\ f.description < g.description

RECURSIVE SortedByName(_)
SortedByName(files) ==
    IF files = {} THEN <<>>
    ELSE LET first == CHOOSE f \in files :
                          \A g \in files \ {f} : NameBefore(f, g)
         IN  <<first>> \o SortedByName(files \ {first})

\* Variant of the conflict key that leaves out the kind of script.
ConflictKey_version(f) == <<f.version>>

\* _check_version_conflicts: key = (script.script_type, script.version).
ConflictKey(f) == <<f.kind, f.version>>

\* The scripts whose key an earlier script of the list has already claimed.
VersionConflicts(scripts) ==
    {p \in DOMAIN scripts :
        \E q \in 1..(p - 1) : ConflictKey(scripts[q]) = ConflictKey(scripts[p])}

\* load_scripts: the parsed and readable files in name order; one warning per
\* file that does not parse, one error per file that cannot be read, per
\* empty script and per version conflict.
load_scripts(directory, unreadable, blank) ==
    LET parsed == {f \in directory : Parses(f)}
        scripts == SortedByName(parsed \ unreadable)
    IN  [scripts |-> scripts,
         errors |-> Cardinality(parsed \cap unreadable)
                        + Cardinality((parsed \ unreadable) \cap blank)
                        + Cardinality(VersionConflicts(scripts)),
         warnings |-> Cardinality(directory \ parsed)]

\* A directory, the files of it that cannot be read and those whose content
\* is blank (at most one of each).
LoaderInit ==
    /\ Idle
    /\ \E d \in Directories :
        call \in [op : {"load_scripts"},
                  directory : {d},
                  unreadable : {{}} \cup {{f} : f \in d},
                  blank : {{}} \cup {{f} : f \in d},
                  done : {FALSE},
                  loaded : {[scripts |-> <<>>, errors |-> 0, warnings |-> 0]}]

LoadScriptsCall ==
    /\ call.op = "load_scripts"
    /\ ~call.done
    /\ call' = [call EXCEPT
                   !.done = TRUE,
                   !.loaded = load_scripts(call.directory, call.unreadable,
                                          call.blank)]
    /\ UNCHANGED <<store, req, wpc, idx, result, wjob, fin, view, last, intr,
                   events, meta, monitor>>

LoaderNext == LoadScriptsCall

LoaderSpec == LoaderInit /\ [][LoaderNext]_vars

(***************************************************************************)
(* The registry of the API process (job_runner.py 23) over several calls   *)
(* of start_migration_job with a callback file configured.  declared[t] is *)
(* the number of handlers of type t the file declares; handler k of type t *)
(* is <<t, k>>.  Every handler returns None.                               *)
(***************************************************************************)
CallbackTypes == {"before_job", "after_job", "before_tenant", "after_tenant",
                  "before_script", "after_script", "on_error"}

\* CallbackRegistry.__init__: seven empty lists.
EmptyRegistry == [t \in CallbackTypes |-> <<>>]

\* load_from_file: registers every handler the file declares (append).
load_from_file(registry, declared) ==
    [t \in CallbackTypes |->
        registry[t] \o [k \in 1..declared[t] |-> <<t, k>>]]

RegistryInit ==
    /\ Idle
    /\ call \in [op : {"start_migration_job"},
                 declared : [CallbackTypes -> 0..MaxCallbacks],
                 registry : {EmptyRegistry},
                 starts : {0},
                 invoked : {<<>>}]

\* start_migration_job up to its before_job hooks (lines 35-63): load the
\* file into the module's registry, then call the before_job list in order.
StartJobLoad ==
    /\ call.op = "start_migration_job"
    /\ call.starts < MaxJobs
    /\ LET loaded == load_from_file(call.registry, call.declared)
       IN  call' = [call EXCEPT !.registry = loaded,
                                !.starts = @ + 1,
                                !.invoked = loaded["before_job"]]
    /\ UNCHANGED <<store, req, wpc, idx, result, wjob, fin, view, last, intr,
                   events, meta, monitor>>

RegistryNext == StartJobLoad

RegistrySpec == RegistryInit /\ [][RegistryNext]_vars

(***************************************************************************)
(* DELETE /api/migrations/jobs/{job_id} (migrations.py 294-311): the key   *)
(* is deleted whatever the job's status; 404 when there was none.          *)
(***************************************************************************)
DeleteJob ==
    /\ store # NoJob
    /\ store' = NoJob
    /\ UNCHANGED <<req, wpc, idx, result, wjob, fin, view, last, intr,
                   events, meta, monitor, call>>

Next ==
    \/ StartJob
    \/ \E i \in Tenants : Worker(i)
    \/ Finalize
    \/ GetJob
    \/ DeleteJob

Spec == Init /\ [][Next]_vars

(***************************************************************************)
(* monitor_job_progress (dependencies.py 12-42), the background task that  *)
(* start_migration adds for an accepted request (migrations.py 155-156).   *)
(* The store answers every read, so the except branch is not taken.        *)
(***************************************************************************)
\* Variant of the poll that goes on polling a job it does not find.
MonitorPoll_polls_missing ==
    /\ monitor.pc = "poll"
    /\ LET job_status == get_job_status(store)
       IN  monitor' =
               [pc |-> IF job_status = NoJob THEN "sleep"
                       ELSE IF job_status.status \in {SUCCESS, FAILED, PARTIAL}
                       THEN "exited"
                       ELSE "sleep",
                job_status |-> job_status]
    /\ UNCHANGED <<store, req, wpc, idx, result, wjob, fin, view, last, intr,
                   events, meta, call>>

\* lines 18-36: read the status; leave the loop when the job is missing or
\* its status is success, failed or partial; otherwise go to sleep.
MonitorPoll ==
    /\ monitor.pc = "poll"
    /\ LET job_status == get_job_status(store)
       IN  monitor' =
               [pc |-> IF job_status = NoJob THEN "exited"
                       ELSE IF job_status.status \in {SUCCESS, FAILED, PARTIAL}
                       THEN "exited"
                       ELSE "sleep",
                job_status |-> job_status]
    /\ UNCHANGED <<store, req, wpc, idx, result, wjob, fin, view, last, intr,
                   events, meta, call>>

\* line 38: asyncio.sleep(2) returns and the loop takes its next turn.
MonitorWake ==
    /\ monitor.pc = "sleep"
    /\ monitor' = [monitor EXCEPT !.pc = "poll"]
    /\ UNCHANGED <<store, req, wpc, idx, result, wjob, fin, view, last, intr,
                   events, meta, call>>

\* _save_job writes the key with setex and a time to live of seven days
\* (state_management.py 158): a key that is not written again expires.
ExpireJob ==
    /\ store # NoJob
    /\ store' = NoJob
    /\ UNCHANGED <<req, wpc, idx, result, wjob, fin, view, last, intr, events,
                   meta, monitor, call>>

\* A request of no, one or two tenants, in a deployment without hooks.
StartMonitoredJob ==
    StartMigration({0, 1, 2}, {DRY_RUN, APPLY}, {"empty"}, LoadedClean({1}),
                   {OkResult})

MonitorNext ==
    \/ StartMonitoredJob
    \/ \E i \in Tenants : Worker(i)
    \/ Finalize
    \/ MonitorPoll
    \/ MonitorWake
    \/ ExpireJob

MonitorSpec == Init /\ [][MonitorNext]_vars

\* Workers that are up run their tasks to the end, the event loop of the
\* API process runs the monitor, and time passes for the keys of the store.
MonitorFairSpec ==
    /\ MonitorSpec
    /\ \A i \in Tenants : WF_vars(Worker(i))
    /\ WF_vars(MonitorPoll)
    /\ WF_vars(MonitorWake)
    /\ WF_vars(ExpireJob)

TenantNext ==
    \/ StartTenantJob
    \/ \E i \in Tenants : Worker(i)
    \/ Finalize
    \/ GetJob
    \/ DeleteJob

TenantSpec == Init /\ [][TenantNext]_vars

\* A worker process that is up runs the task it has picked to its end.
TenantFairSpec == TenantSpec /\ \A i \in Tenants : WF_vars(Worker(i))

StartNext ==
    \/ StartAnyJob
    \/ \E i \in Tenants : Worker(i)
    \/ Finalize
    \/ GetJob
    \/ DeleteJob

StartSpec == Init /\ [][StartNext]_vars

(***************************************************************************)
(* StoreSpec: the StateManager called directly, one call after the other,  *)
(* with any arguments (as its unit tests call it).                         *)
(***************************************************************************)
ReportedStatuses == {RUNNING, SUCCESS, FAILED}

TenantResultOf(t, st) ==
    [tenant_id |-> t,
     status |-> Member(st),
     scripts_applied |-> <<>>,
     scripts_skipped |-> <<>>,
     error_message |-> None,
     completed_at |-> UtcNow]

CreateJobCall ==
    /\ \E n \in 0..MaxTenants :
        /\ store' = create_job(n)
        /\ last' = [op |-> "create_job", n |-> n]
    /\ UNCHANGED <<req, wpc, idx, result, wjob, fin, view, intr, events,
                   meta, monitor, call>>

\* update_job_status (96-103)
update_job_status(job, st) ==
    [job EXCEPT !.status = Member(st),
                !.completed_at =
                    IF st \in {SUCCESS, FAILED, PARTIAL} THEN UtcNow ELSE @]

UpdateJobStatusCall ==
    /\ \E st \in MigrationStatus :
        /\ store' = IF get_job(store) = NoJob THEN store
                    ELSE save_job(update_job_status(get_job(store), st))
        /\ last' = [op |-> "update_job_status", status |-> st]
    /\ UNCHANGED <<req, wpc, idx, result, wjob, fin, view, intr, events,
                   meta, monitor, call>>

\* Variant of the call that creates the record of a job it does not find.
StoreAfterUpdate_upsert(data, tr) ==
    IF get_job(data) = NoJob THEN create_job(1)
    ELSE LET job == update_tenant_result(get_job(data), tr)
         IN  IF SaveRaises(job) THEN data ELSE save_job(job)

\* update_tenant_result (105-128) as one call: what it leaves in the store.
StoreAfterUpdate(data, tr) ==
    IF get_job(data) = NoJob THEN data
    ELSE LET job == update_tenant_result(get_job(data), tr)
         IN  IF SaveRaises(job) THEN data ELSE save_job(job)

UpdateTenantResultCall ==
    /\ \E t \in Tenants, st \in ReportedStatuses :
        /\ store' = StoreAfterUpdate(store, TenantResultOf(t, st))
        /\ last' = [op |-> "update_tenant_result", tenant_id |-> t,
                    status |-> st,
                    repeated |-> /\ last.op = "update_tenant_result"
                                 /\ last.tenant_id = t
                                 /\ last.status = st]
    /\ UNCHANGED <<req, wpc, idx, result, wjob, fin, view, intr, events,
                   meta, monitor, call>>

StoreNext ==
    \/ CreateJobCall
    \/ UpdateJobStatusCall
    \/ UpdateTenantResultCall

StoreSpec == Init /\ [][StoreNext]_vars

(***************************************************************************)
(* POST /api/migrations/start over time (migrations.py 131-152): the job   *)
(* id is made of the second of the clock and the number of tenants, and    *)
(* create_job saves under that id.  The clock counts half seconds.         *)
(***************************************************************************)
\* strftime('%Y%m%d_%H%M%S'): the instant cut to its second.
Strftime(now) == now \div 2

\* f"migration_{...}_{len(request.tenants)}_tenants"
JobId(now, n) == <<"migration", Strftime(now), n, "tenants">>

IdInit ==
    /\ Idle
    /\ call = [op |-> "start_migration", now |-> 0, jobs |-> <<>>,
               starts |-> 0, job_id |-> None]

ClockTick ==
    /\ call.op = "start_migration"
    /\ call.now < MaxClock
    /\ call' = [call EXCEPT !.now = @ + 1]
    /\ UNCHANGED <<store, req, wpc, idx, result, wjob, fin, view, last, intr,
                   events, meta, monitor>>

\* An accepted request: create_job saves the new state under the job id.
StartMigrationCall ==
    /\ call.op = "start_migration"
    /\ call.starts < MaxJobs
    /\ \E n \in 0..MaxTenants :
        LET job_id == JobId(call.now, n)
        IN  call' = [call EXCEPT
                        !.jobs = [k \in DOMAIN call.jobs \cup {job_id} |->
                                     IF k = job_id THEN create_job(n)
                                     ELSE call.jobs[k]],
                        !.starts = @ + 1,
                        !.job_id = job_id]
    /\ UNCHANGED <<store, req, wpc, idx, result, wjob, fin, view, last, intr,
                   events, meta, monitor>>

\* A tenant task of a stored job reports its result.
ReportCall ==
    /\ call.op = "start_migration"
    /\ \E k \in DOMAIN call.jobs, t \in Tenants, st \in {SUCCESS, FAILED} :
        /\ t <= call.jobs[k].total_tenants
        /\ t \notin DOMAIN call.jobs[k].tenant_results
        /\ call' = [call EXCEPT
                       !.jobs[k] = StoreAfterUpdate(call.jobs[k],
                                                    TenantResultOf(t, st))]
    /\ UNCHANGED <<store, req, wpc, idx, result, wjob, fin, view, last, intr,
                   events, meta, monitor>>

IdNext ==
    \/ ClockTick
    \/ StartMigrationCall
    \/ ReportCall

IdSpec == IdInit /\ [][IdNext]_vars

(***************************************************************************)
(* Properties                                                              *)
(***************************************************************************)
Terminal == {SUCCESS, FAILED, PARTIAL}

JobStored == store # NoJob

\* Task i has left update_tenant_result (it returned, or _save_job raised).
Flushed(i) == wpc[i] \in {"returned", "raised"}

AllFlushed == req.started /\ \A i \in 1..req.n : Flushed(i)

ReportedAll(st) ==
    \A t \in DOMAIN store.tenant_results : store.tenant_results[t].status = st

\* C1: a stored job whose status is SUCCESS, FAILED or PARTIAL has
\* completed = total, and its status is SUCCESS iff every reported tenant
\* result is SUCCESS, FAILED iff every one is FAILED, PARTIAL otherwise.
C1_TerminalMapping ==
    (JobStored /\ store.status \in Terminal) =>
        /\ store.completed_tenants = store.total_tenants
        /\ (store.status = SUCCESS) <=> ReportedAll(SUCCESS)
        /\ (store.status = FAILED) <=> ReportedAll(FAILED)
        /\ (store.status = PARTIAL) <=>
               (~ReportedAll(SUCCESS) /\ ~ReportedAll(FAILED))

\* C2: once each of the N tenant tasks has made its one call of
\* update_tenant_result, the stored job has completed = N and holds the
\* result of every one of the N tenants.
C2_NoLostUpdate ==
    (AllFlushed /\ JobStored) =>
        /\ store.completed_tenants = req.n
        /\ \A i \in 1..req.n :
            /\ i \in DOMAIN store.tenant_results
            /\ store.tenant_results[i] = serialize_for_celery(result[i])

\* C3: every stored job satisfies successful + failed <= completed <= total,
\* whatever the interleaving of the tasks' reads and writes.
C3_CounterBounds ==
    JobStored =>
        /\ store.successful_tenants + store.failed_tenants
               <= store.completed_tenants
        /\ store.completed_tenants <= store.total_tenants

\* C3 witness: a task has finished its update_tenant_result and the stored
\* job counts its report.
C3_Witness ==
    /\ JobStored
    /\ store.completed_tenants >= 1
    /\ \E i \in Tenants : Flushed(i)

\* C4: a job started with N >= 1 tenants whose tenant tasks have all run to
\* the end of their result flush is stored with a terminal status and
\* completed = total.
C4_AllFlushedIsTerminal ==
    (AllFlushed /\ req.n >= 1 /\ JobStored) =>
        /\ store.status \in Terminal
        /\ store.completed_tenants = store.total_tenants

\* C5: every call of update_tenant_result on an existing job writes the job
\* it read back with tenant_results[tenant_id] set, completed incremented,
\* successful / failed incremented for a SUCCESS / FAILED result, total
\* unchanged, and the terminal status and completed_at set when completed
\* reaches total.
C5_CallWrites(i) ==
    LET old == wjob[i]
        tr == result[i]
    IN  /\ store' # NoJob
        /\ store'.total_tenants = old.total_tenants
        /\ store'.completed_tenants = old.completed_tenants + 1
        /\ store'.successful_tenants = old.successful_tenants
               + (IF tr.status.value = SUCCESS THEN 1 ELSE 0)
        /\ store'.failed_tenants = old.failed_tenants
               + (IF tr.status.value = FAILED THEN 1 ELSE 0)
        /\ tr.tenant_id \in DOMAIN store'.tenant_results
        /\ store'.tenant_results[tr.tenant_id] = serialize_for_celery(tr)
        /\ (store'.completed_tenants = store'.total_tenants) =>
               (store'.status \in Terminal /\ store'.completed_at # None)

C5_EveryCallWrites ==
    [][\A i \in Tenants :
          (wpc[i] = "flush_write" /\ wpc'[i] # "flush_write")
              => C5_CallWrites(i)]_vars

\* C6: in a job of two or more tenants, from the first finished report
\* until the report that makes completed = total the stored status is
\* RUNNING (it is PENDING only while no tenant has reported).
C6_RunningAfterFirstReport ==
    (/\ req.started
     /\ req.n >= 2
     /\ JobStored
     /\ \E i \in 1..req.n : Flushed(i)
     /\ store.completed_tenants < store.total_tenants)
        => store.status = RUNNING

\* C7: a stored job's status is terminal iff completed = total, and no step
\* changes a terminal stored status.
C7_TerminalIffComplete ==
    JobStored =>
        ((store.status \in Terminal)
            <=> (store.completed_tenants = store.total_tenants))

C7_TerminalIsStable ==
    (JobStored /\ store.status \in Terminal /\ store' # NoJob)
        => store'.status = store.status

C7_TerminalIffCompleteAndStable ==
    /\ []C7_TerminalIffComplete
    /\ [][C7_TerminalIsStable]_vars

Counters(job) ==
    <<job.completed_tenants, job.successful_tenants, job.failed_tenants>>

\* C8: update_tenant_result applied a second time with the same tenant_id
\* and result leaves completed, successful and failed as the first
\* application left them, and completed never exceeds total.
C8_SecondApplication ==
    (JobStored /\ last'.op = "update_tenant_result" /\ last'.repeated)
        => (store' # NoJob /\ Counters(store') = Counters(store))

InFlush(i) == wpc[i] \in {"flush_read", "flush_write"}

\* C9: every result handed to update_tenant_result, and every result in the
\* store, has status SUCCESS or FAILED; one that carries an error_message
\* is FAILED and counted in failed_tenants, and no task ends by raising.
C9_FlushedIsSuccessOrFailed ==
    /\ \A i \in Tenants :
        /\ InFlush(i) =>
            /\ result[i].status.value \in {SUCCESS, FAILED}
            /\ result[i].error_message # None
                   => result[i].status.value = FAILED
        /\ wpc[i] # "raised"
    /\ JobStored =>
        /\ \A t \in DOMAIN store.tenant_results :
               store.tenant_results[t].status \in {SUCCESS, FAILED}
        /\ store.failed_tenants =
               Cardinality({t \in DOMAIN store.tenant_results :
                   store.tenant_results[t].error_message # None})

Running(i) == wpc[i] \notin {"idle", "queued", "returned", "raised"}

\* C11: in a sequential job at most one tenant task is running at any time,
\* and the task of tenant k+1 has not started while the task of tenant k
\* has not finished its flush.
C11_SequentialOneAtATime ==
    (req.started /\ ~req.parallel) =>
        /\ Cardinality({i \in 1..req.n : Running(i)}) <= 1
        /\ \A k \in 1..(req.n - 1) :
               wpc[k + 1] # "queued" => Flushed(k)

\* C12: in both modes the step that begins finalize_migration_job is taken
\* only when every tenant task has finished its flush, and the job it reads
\* has completed = total.
C12_FinalizeBegins ==
    (fin.pc = "waiting" /\ fin'.pc = "done") =>
        /\ \A i \in 1..req.n : Flushed(i)
        /\ JobStored => store.completed_tenants = store.total_tenants

C12_FinalizeAfterAllFlushed == [][C12_FinalizeBegins]_vars

\* Task i has ended its try block with a FAILED result.
TaskFailed(i) ==
    /\ wpc[i] \in {"finally", "flush_read", "flush_write", "returned",
                    "raised"}
    /\ result[i].status = Member(FAILED)

\* C13: in either mode, while the task of one tenant has FAILED, the task
\* of every other tenant that has not yet finished its flush can take its
\* next step (start, run, call update_tenant_result).
C13_FailedDoesNotBlock ==
    req.started =>
        \A i, j \in 1..req.n :
            (i # j /\ TaskFailed(i) /\ ~Flushed(j)) => ENABLED Worker(j)

\* C13 witness: a sequential job whose first tenant flushed FAILED and whose
\* second tenant ran to SUCCESS and finished its flush.
C13_Witness ==
    /\ req.started
    /\ ~req.parallel
    /\ req.n >= 2
    /\ TaskFailed(1)
    /\ Flushed(1)
    /\ Flushed(2)
    /\ result[2].status = Member(SUCCESS)
    /\ events[1] # <<>>
    /\ events[2] # <<>>

NothingDispatched == \A i \in Tenants : wpc[i] = "idle" /\ events[i] = <<>>

\* C14: when the before_job hook chain ends in failure (a failed result, a
\* False, an exception) the request fails: no job is created and no tenant
\* task is dispatched.
C14_BeforeJobFailureAborts ==
    (req.started /\ req.before_job # NoHook /\ ~req.before_job.success) =>
        /\ req.outcome # "202"
        /\ ~req.created
        /\ NothingDispatched

\* C15: a request whose directory fails validation, whose load reports
\* errors or finds no script is refused before anything happens: no
\* before_job hook has run, no job was created, no task was dispatched; a
\* request whose load reports at most warnings is not refused.
C15_RejectedBeforeAnything ==
    req.started =>
        IF ~req.loader.dir_ok \/ req.loader.errors \/ req.loader.ns = 0
        THEN /\ req.outcome = "400"
             /\ req.before_job = NoHook
             /\ ~req.created
             /\ store = NoJob
             /\ NothingDispatched
             /\ fin.pc = "idle"
        ELSE req.outcome # "400"

\* C15 witness: a request over a directory with no script, which the
\* validator only warns about, has been refused.
C15_Witness ==
    /\ req.started
    /\ req.loader.dir_ok
    /\ ~req.loader.errors
    /\ req.loader.warnings
    /\ req.loader.ns = 0
    /\ req.outcome = "400"

\* C16: a request in mode validate_only creates no job, dispatches no
\* tenant task and executes no script.
C16_ValidateOnlyRunsNothing ==
    (req.started /\ req.mode = VALIDATE_ONLY) =>
        /\ ~req.created
        /\ store = NoJob
        /\ NothingDispatched

\* C17: with SIMPLY_MIGRATE_CALLBACK_FILE unset or naming a missing file, a
\* request that passes validation is accepted: the job is created and every
\* tenant task is dispatched.
C17_NoCallbackFileIsNotAnError ==
    (/\ req.started
     /\ req.callback_file \in {"unset", "missing"}
     /\ req.loader.dir_ok /\ ~req.loader.errors /\ req.loader.ns > 0) =>
        /\ req.outcome = "202"
        /\ req.created
        /\ \A i \in 1..req.n : wpc[i] # "idle"

\* C18: a request with zero tenants creates the job; having no task to
\* wait for, finalize_migration_job can run; once it has run the stored
\* status is SUCCESS.
C18_EmptyJobSucceeds ==
    (req.started /\ req.n = 0 /\ req.outcome = "202") =>
        /\ req.created
        /\ fin.pc = "waiting" => ENABLED Finalize
        /\ (fin.pc = "done" /\ JobStored) => store.status = SUCCESS

Range(seq) == {seq[p] : p \in DOMAIN seq}

\* The events of task i about script k.
ScriptEvents(i, k) == {e \in Range(events[i]) : e[2] = k}

\* Task i has left its try block without a time limit interruption.
EndedUninterrupted(i) ==
    /\ wpc[i] \in {"finally", "flush_read", "flush_write", "returned",
                    "raised"}
    /\ intr[i] = NoResult

\* What follows a skip of script k: the before_script hooks of script
\* k + 1, or the after_tenant hooks when k was the last script.
AfterSkip(k, e) ==
    IF k < Len(req.scripts)
    THEN e[1] = "before_script" /\ e[2] = k + 1
    ELSE e[1] = "after_tenant"

ExecutedBefore(i, k) ==
    SelectSeq(SubSeq(req.scripts, 1, k - 1),
              LAMBDA f : \E j \in 1..(k - 1) :
                  /\ req.scripts[j] = f
                  /\ <<"execute", j, "ok">> \in Range(events[i]))

\* C20: when the before_script hooks of script k fail or the execution of
\* script k raises, nothing more is executed or hooked by the task, the
\* result handed to update_tenant_result (and stored) is FAILED with an
\* error_message, and scripts_applied is exactly the scripts executed
\* successfully before k, in order.
C20_FailureStopsTenant ==
    \A i \in Tenants :
        \A p \in DOMAIN events[i] :
            LET e == events[i][p]
                k == e[2]
            IN  (e[1] \in {"before_script", "execute"} /\ e[3] = "fail") =>
                  /\ p = Len(events[i])
                  /\ wpc[i] \in {"finally", "flush_read", "flush_write",
                                  "returned", "raised"}
                  /\ result[i].status = Member(FAILED)
                  /\ result[i].error_message =
                         (IF e[1] = "execute" THEN ExecutionFailed
                          ELSE BeforeScriptFailed)
                  /\ result[i].scripts_applied = ExecutedBefore(i, k)
                  /\ (Flushed(i) /\ JobStored) =>
                         /\ i \in DOMAIN store.tenant_results
                         /\ store.tenant_results[i] =
                                serialize_for_celery(result[i])

\* C20 witness: the first script was executed, the execution of the second
\* raised, and the FAILED result with the first script applied is stored.
C20_Witness ==
    /\ req.started
    /\ <<"execute", 1, "ok">> \in Range(events[1])
    /\ <<"execute", 2, "fail">> \in Range(events[1])
    /\ wpc[1] = "returned"
    /\ JobStored
    /\ 1 \in DOMAIN store.tenant_results
    /\ store.tenant_results[1].status = FAILED
    /\ store.tenant_results[1].error_message = ExecutionFailed
    /\ store.tenant_results[1].scripts_applied = <<req.scripts[1]>>

\* Task i ran its before_tenant hooks with success and left the try block
\* without a time limit interruption.
DryRunCompleted(i) ==
    /\ result[i] # NoResult
    /\ EndedUninterrupted(i)
    /\ \E e \in Range(events[i]) : e[1] = "before_tenant" /\ e[3] # "fail"

\* C21: in a dry run a tenant task executes no script and runs no hook but
\* before_tenant; when before_tenant succeeds its result is SUCCESS with
\* every filename in scripts_applied, in order, and scripts_skipped empty;
\* and the job of such tenants is stored as SUCCESS once all have flushed.
C21_DryRun ==
    (req.started /\ req.dry_run) =>
        /\ \A i \in 1..req.n :
            /\ \A e \in Range(events[i]) : e[1] = "before_tenant"
            /\ DryRunCompleted(i) =>
                /\ result[i].status = Member(SUCCESS)
                /\ result[i].scripts_applied = req.scripts
                /\ result[i].scripts_skipped = <<>>
        /\ (/\ req.n >= 1
            /\ AllFlushed
            /\ \A i \in 1..req.n : DryRunCompleted(i)
            /\ JobStored) => store.status = SUCCESS

HookKinds == {"before_tenant", "before_script", "after_script",
              "after_tenant"}

\* C22: one tenant in apply mode whose hooks all succeeded without a skip
\* and whose executions all succeeded hands update_tenant_result a SUCCESS
\* result with every input filename in scripts_applied, in order, and
\* scripts_skipped empty.
C22_AllSucceed ==
    \A i \in Tenants :
        (/\ result[i] # NoResult
         /\ ~req.dry_run
         /\ EndedUninterrupted(i)
         /\ \A e \in Range(events[i]) :
               e[1] \in HookKinds \cup {"execute"} => e[3] = "ok")
            => /\ result[i].status = Member(SUCCESS)
               /\ result[i].scripts_applied = req.scripts
               /\ result[i].scripts_skipped = <<>>

NoDuplicate(seq) ==
    \A a, b \in DOMAIN seq : a # b => seq[a] # seq[b]

DisjointSubsets(applied, skipped) ==
    /\ Range(applied) \cap Range(skipped) = {}
    /\ Range(applied) \cup Range(skipped) \subseteq Range(req.scripts)
    /\ NoDuplicate(applied)
    /\ NoDuplicate(skipped)

\* C23: at every point of a tenant task's run, and in every stored tenant
\* result, scripts_applied and scripts_skipped are disjoint, hold only
\* filenames of the input scripts, and hold no filename twice.
C23_AppliedSkippedDisjoint ==
    /\ \A i \in Tenants :
          result[i] # NoResult =>
              DisjointSubsets(result[i].scripts_applied,
                              result[i].scripts_skipped)
    /\ JobStored =>
          \A t \in DOMAIN store.tenant_results :
              DisjointSubsets(store.tenant_results[t].scripts_applied,
                              store.tenant_results[t].scripts_skipped)

\* C23 witness: a task is about to write a result that holds one applied
\* and one skipped script.
C23_Witness ==
    /\ wpc[1] = "flush_write"
    /\ Len(result[1].scripts_applied) = 1
    /\ Len(result[1].scripts_skipped) = 1

\* C24: in apply mode, a task whose after_tenant hooks failed after all its
\* scripts hands update_tenant_result a SUCCESS result without an
\* error_message, and that is what is stored.
C24_AfterTenantFailureIsLogged ==
    \A i \in Tenants :
        (/\ result[i] # NoResult
         /\ EndedUninterrupted(i)
         /\ <<"after_tenant", 0, "fail">> \in Range(events[i]))
            => /\ result[i].status = Member(SUCCESS)
               /\ result[i].error_message = None
               /\ (wpc[i] = "returned" /\ JobStored) =>
                      /\ i \in DOMAIN store.tenant_results
                      /\ store.tenant_results[i].status = SUCCESS
                      /\ store.tenant_results[i].error_message = None

\* C24 witness: the after_tenant hooks of a task that applied every script
\* failed, and its stored result is SUCCESS.
C24_Witness ==
    /\ req.started
    /\ <<"after_tenant", 0, "fail">> \in Range(events[1])
    /\ wpc[1] = "returned"
    /\ JobStored
    /\ 1 \in DOMAIN store.tenant_results
    /\ store.tenant_results[1].status = SUCCESS
    /\ store.tenant_results[1].scripts_applied = req.scripts

\* Task i has left its try block through one of the except handlers.
EndedInFailure(i) ==
    /\ result[i] # NoResult
    /\ wpc[i] \in {"finally", "flush_read", "flush_write", "returned",
                   "raised"}
    /\ result[i].status = Member(FAILED) \/ intr[i] # NoResult

\* C25: a task that ended in failure (a failed hook chain, a failed
\* execution, the time limit) in a process with registered handlers has
\* run the on_error hooks.
C25_OnErrorInvoked ==
    \A i \in Tenants :
        (EndedInFailure(i) /\ req.callback_file = "file") =>
            \E e \in Range(events[i]) : e[1] = "on_error"

\* C26: a progress emit that raises does not make the task FAILED, and the
\* task goes on with the next script (the after_tenant hooks after the last
\* script).
C26_ProgressIsBestEffort ==
    \A i \in Tenants :
        \A p \in DOMAIN events[i] :
            LET e == events[i][p]
            IN  (e[1] = "progress" /\ e[3] = "fail") =>
                  /\ result[i].error_message # ProgressFailed
                  /\ (p = Len(events[i]) /\ intr[i] = NoResult) =>
                        wpc[i] = (IF e[2] < Len(req.scripts)
                                  THEN "before_script" ELSE "after_tenant")

\* C27: finalize_migration_job on an existing job, in a process with
\* registered handlers, has run the after_job hooks when it returns, and
\* leaves the stored job as it was.
C27_FinalizeStep ==
    (fin.pc = "waiting" /\ fin'.pc = "done") =>
        /\ store' = store
        /\ (fin'.ret # NoJob /\ req.callback_file = "file")
               => fin'.after_job

C27_AfterJobInvoked == [][C27_FinalizeStep]_vars

\* C30: the stored job read back by get_job has its status and its tenant
\* results' statuses as MigrationStatus members again, the other fields as
\* stored, and saving it again succeeds and stores the same value.
C30_RoundTrip ==
    JobStored =>
        LET job == get_job(store)
        IN  /\ job.status = Member(store.status)
            /\ \A t \in DOMAIN store.tenant_results :
                  job.tenant_results[t].status =
                      Member(store.tenant_results[t].status)
            /\ job.completed_at = store.completed_at
            /\ Counters(job) = Counters(store)
            /\ ~SaveRaises(job)
            /\ save_job(job) = store

\* The handler answers that end a chain.
Stopping == {"skip", "fail", "fail_skip", "False", "raises"}

\* The first handler of chain c whose answer ends it, 0 when there is none.
FirstStop(c) ==
    IF \E k \in DOMAIN c : c[k] \in Stopping
    THEN CHOOSE k \in DOMAIN c :
            /\ c[k] \in Stopping
            /\ \A j \in 1..(k - 1) : c[j] \notin Stopping
    ELSE 0

\* C28: the handlers of a chain are called one at a time in registration
\* order and none is called after the first that fails or asks for a skip;
\* a result with success = false is a failure even with skip_script = true,
\* a skip is success = true with skip_script = true, False and an exception
\* are failures, and None or a dict lets the chain go on, the dict being
\* merged into the metadata.
C28_ChainSemantics ==
    call.op = "run_callbacks" =>
        LET c == call.callbacks
            f == FirstStop(c)
            last_called == IF f > 0 THEN f ELSE Len(c)
        IN  /\ call.invoked = [k \in 1..Len(call.invoked) |-> k]
            /\ Len(call.invoked) <= last_called
            /\ call.metadata =
                   {k \in 1..Len(call.invoked) : c[k] = "dict"}
            /\ call.ret # NoHook =>
                /\ Len(call.invoked) = last_called
                /\ HowEnded(call.ret) =
                       (IF f = 0 THEN "ok"
                        ELSE IF c[f] = "skip" THEN "skip" ELSE "fail")
                /\ f = 0 => call.ret = OkResult
                /\ (f > 0 /\ c[f] = "fail_skip") =>
                       (~call.ret.success /\ call.ret.skip_script)

\* C28 witness: a chain whose first handler returned success = false with
\* skip_script = true has ended as a failure without calling its second
\* handler.
C28_Witness ==
    /\ call.op = "run_callbacks"
    /\ Len(call.callbacks) = 2
    /\ call.callbacks[1] = "fail_skip"
    /\ call.invoked = <<1>>
    /\ call.ret # NoHook
    /\ ~call.ret.success

\* C29: get_all_jobs(limit) returns min(limit, number of jobs) jobs, ordered
\* by started_at descending, and no job left out started after a job it
\* returns.
C29_MostRecentJobs ==
    (call.op = "get_all_jobs" /\ call.done) =>
        LET ret == call.ret
            st == call.started_at
            n == Len(call.keys)
        IN  /\ Len(ret) = Min(call.limit, n)
            /\ NoDuplicate(ret)
            /\ Range(ret) \subseteq 1..n
            /\ \A a, b \in DOMAIN ret : a < b => st[ret[a]] >= st[ret[b]]
            /\ \A j \in (1..n) \ Range(ret), r \in Range(ret) :
                   st[j] <= st[r]

\* C31: the stored tenant_results holds the result of tenant i, under its
\* own tenant_id, iff the task of tenant i has finished its report, and the
\* number of entries equals completed.
C31_ResultsAreTheReports ==
    (req.started /\ JobStored) =>
        /\ \A i \in 1..req.n :
            /\ (i \in DOMAIN store.tenant_results) <=> Flushed(i)
            /\ i \in DOMAIN store.tenant_results =>
                   store.tenant_results[i] = serialize_for_celery(result[i])
        /\ Cardinality(DOMAIN store.tenant_results) = store.completed_tenants

\* C32: update_tenant_result and update_job_status on a job that is not in
\* the store leave the store without it, and get_job / get_job_status of a
\* job that is not in the store answer None.
C32_MissingJobStep ==
    (store = NoJob /\ last'.op \in {"update_tenant_result",
                                    "update_job_status"})
        => store' = NoJob

C32_MissingJob ==
    /\ [][C32_MissingJobStep]_vars
    /\ [](store = NoJob =>
            (get_job(store) = NoJob /\ get_job_status(store) = NoJob))

\* C32 witness: update_tenant_result was called while no job was stored.
C32_Witness ==
    /\ store = NoJob
    /\ last.op = "update_tenant_result"

\* The place of a script event within its loop turn.
Rank(what) ==
    CASE what = "before_script" -> 1
      [] what = "execute" -> 2
      [] what = "after_script" -> 3
      [] what = "progress" -> 4
      [] OTHER -> 0

\* C35: in apply mode the log of a task starts with before_tenant; the
\* events of script i precede those of script j for i < j; within a script
\* before_script precedes execute precedes after_script; a script is
\* executed only after its before_script hooks succeeded; and after_tenant
\* comes last, after the loop has reached the last script.
C35_EventOrder ==
    (req.started /\ ~req.dry_run) =>
        \A i \in Tenants :
            LET ev == events[i]
            IN  /\ \A p \in DOMAIN ev :
                    /\ (ev[p][1] = "before_tenant") <=> (p = 1)
                    /\ ev[p][1] = "after_tenant" =>
                        /\ p = Len(ev)
                        /\ \E q \in 1..(p - 1) :
                              /\ ev[q][1] = "before_script"
                              /\ ev[q][2] = Len(req.scripts)
                    /\ ev[p][1] = "execute" =>
                          ev[p - 1] = <<"before_script", ev[p][2], "ok">>
                    /\ ev[p][1] = "after_script" =>
                          ev[p - 1] = <<"execute", ev[p][2], "ok">>
                /\ \A p, q \in DOMAIN ev :
                      (p < q /\ ev[p][2] >= 1 /\ ev[q][2] >= 1) =>
                          \/ ev[p][2] < ev[q][2]
                          \/ /\ ev[p][2] = ev[q][2]
                             /\ Rank(ev[p][1]) < Rank(ev[q][1])

\* C35 witness: a task ran both scripts and then its after_tenant hooks.
C35_Witness ==
    /\ req.started
    /\ ~req.dry_run
    /\ Len(req.scripts) = 2
    /\ <<"execute", 1, "ok">> \in Range(events[1])
    /\ <<"after_script", 2, "ok">> \in Range(events[1])
    /\ events[1][Len(events[1])][1] = "after_tenant"

\* C38: once a started job's record is gone from the store, no step puts it
\* back.
C38_DeletedStaysAbsent ==
    [][(req.started /\ store = NoJob) => store' = NoJob]_vars

\* What a step may do to task i's call of update_tenant_result: the call
\* begins from the finally block only, with completed_at stamped; it goes
\* from its read to its write or returns; once it is over the task does
\* nothing more.
C34_FlushStep ==
    \A i \in Tenants :
        /\ (wpc'[i] = "flush_read" /\ wpc[i] # "flush_read") =>
              /\ wpc[i] = "finally"
              /\ result'[i].completed_at = UtcNow
        /\ wpc[i] = "flush_read" =>
              wpc'[i] \in {"flush_read", "flush_write", "returned"}
        /\ wpc[i] = "flush_write" =>
              wpc'[i] \in {"flush_write", "returned", "raised"}
        /\ wpc'[i] = "flush_write" => wpc[i] \in {"flush_read", "flush_write"}
        /\ Flushed(i) => (wpc'[i] = wpc[i] /\ result'[i] = result[i])

\* C34: on every path a queued task ends by calling update_tenant_result:
\* exactly once, after its try block, with completed_at stamped, as the
\* last thing it does.
C34_ExactlyOneFlush ==
    /\ [][C34_FlushStep]_vars
    /\ \A i \in Tenants : (wpc[i] = "queued") ~> Flushed(i)

\* C34 witness: a task whose after_script hooks failed has made its call
\* with completed_at stamped.
C34_Witness ==
    /\ wpc[1] = "returned"
    /\ result[1].error_message = AfterScriptFailed
    /\ result[1].completed_at = UtcNow

\* C33: load_scripts records an error whenever two loaded scripts have the
\* same kind and version, so a load without errors returns scripts of
\* pairwise distinct (kind, version) in ascending order of file name; two
\* scripts of one version and different kinds are no conflict.
C33_VersionConflicts ==
    (call.op = "load_scripts" /\ call.done) =>
        LET scripts == call.loaded.scripts
            shared == \E p, q \in DOMAIN scripts :
                          /\ p # q
                          /\ scripts[p].kind = scripts[q].kind
                          /\ scripts[p].version = scripts[q].version
        IN  /\ shared => call.loaded.errors > 0
            /\ (~shared /\ call.blank = {} /\ call.unreadable = {}) =>
                   call.loaded.errors = 0
            /\ \A p, q \in DOMAIN scripts :
                  p < q => NameBefore(scripts[p], scripts[q])

\* C33 witness: a directory with a migration and a rollback of the same
\* version was loaded without an error.
C33_Witness ==
    /\ call.op = "load_scripts"
    /\ call.done
    /\ call.loaded.errors = 0
    /\ \E p, q \in DOMAIN call.loaded.scripts :
          /\ call.loaded.scripts[p].kind = "R"
          /\ call.loaded.scripts[q].kind = "V"
          /\ call.loaded.scripts[p].version = call.loaded.scripts[q].version

\* C37: after any number of calls of start_migration_job with a callback
\* file, each hook list holds each declared handler exactly once, and the
\* call invoked each before_job handler exactly once.
C37_HookListsDoNotGrow ==
    (call.op = "start_migration_job" /\ call.starts > 0) =>
        /\ \A t \in CallbackTypes :
              /\ Len(call.registry[t]) = call.declared[t]
              /\ Range(call.registry[t]) =
                     {<<t, k>> : k \in 1..call.declared[t]}
        /\ Len(call.invoked) = call.declared["before_job"]
        /\ Range(call.invoked) =
               {<<"before_job", k>> : k \in 1..call.declared["before_job"]}

\* C39: a request never gets the job id of a stored job, and create_job
\* leaves every stored job as it was.
C39_StartStep ==
    (call.op = "start_migration" /\ call'.starts = call.starts + 1) =>
        /\ call'.job_id \notin DOMAIN call.jobs
        /\ \A k \in DOMAIN call.jobs : call'.jobs[k] = call.jobs[k]

C39_DistinctJobIds == [][C39_StartStep]_vars

\* The metadata keys the hooks of script k of task i merged into their
\* script context.
MergedByHooksOf(i, k) ==
    {<<e[1], k>> : e \in {e \in Range(events[i]) :
                             /\ e[1] \in {"before_script", "after_script"}
                             /\ e[2] = k
                             /\ Returned_metadata(e[1], k, e[3]) # {}}}

\* Script k of task i went through its after_script hooks.
ScriptCompleted(i, k) == <<"after_script", k, "ok">> \in Range(events[i])

\* C36: what the hooks of a completed script merged into their script
\* context is in the context metadata handed to the before_script hooks of
\* the next script, and in callback_metadata.
C36_MetadataAccumulates ==
    \A i \in Tenants :
        (req.started /\ i <= req.n) =>
            \A k \in DOMAIN req.scripts :
                ScriptCompleted(i, k) =>
                    /\ MergedByHooksOf(i, k) \subseteq meta[i].callback_metadata
                    /\ (idx[i] = k + 1 /\ wpc[i] = "execute") =>
                           MergedByHooksOf(i, k) \subseteq meta[i].script_context

\* The monitor leaves its loop only on a missing job or on a status of
\* success, failed or partial.
C40_ExitStep ==
    (monitor.pc # "exited" /\ monitor'.pc = "exited") =>
        \/ get_job_status(store) = NoJob
        \/ get_job_status(store).status \in Terminal

====
